---- MODULE Spec2Model ----
(***************************************************************************)
(* Model of the renogy crate (src/src/lib.rs): Battery handles that share  *)
(* one Port (a Modbus RTU context behind a tokio Mutex), the register      *)
(* reads they issue, and the decoding of the returned words.               *)
(***************************************************************************)
EXTENDS Integers, Naturals, Sequences, FiniteSets, TLC

\* ---------------------------------------------------------------- bounds
NumTasks == 2

Tasks == 1..NumTasks

\* ------------------------------------------------------- integer helpers
U16 == 2^16

\* a u32 kept as its two 16-bit halves, value hi * 2^16 + lo
U32(hi, lo) == [hi |-> hi, lo |-> lo]
\* `w as u32` of a u16 word
AsU32(w) == U32(0, w)
\* x << 16 on a u32: the bits shifted out of the top are lost
Shl16(x) == U32(x.lo, 0)
\* x + y on u32
AddU32(x, y) ==
  U32((x.hi + y.hi + ((x.lo + y.lo) \div U16)) % U16, (x.lo + y.lo) % U16)

\* `x as i16` of a u16 word
AsI16(w) == IF w < 32768 THEN w ELSE w - U16
\* the bit pattern of an i16
AsU16(x) == IF x < 0 THEN x + U16 ELSE x
\* the two bytes of a 16-bit pattern exchanged
Swap16(u) == (u % 256) * 256 + (u \div 256)
\* i16::swap_bytes
swap_bytes(x) == AsI16(Swap16(AsU16(x)))

\* ------------------------------------------------------------ error type
Timeout == [kind |-> "Timeout", io |-> "-"]
Io(k) == [kind |-> "Io", io |-> k]
NoDevice(d) == [kind |-> "NoDevice", description |-> d]
InvalidInput(d) == [kind |-> "InvalidInput", description |-> d]
Unknown(d) == [kind |-> "Unknown", description |-> d]
IoKinds == {"TimedOut", "InvalidData"}

Ok(v) == [tag |-> "Ok", val |-> v]
Err(e) == [tag |-> "Err", err |-> e]
None == [tag |-> "None"]

\* ---------------------------------------------------------- register map
RegAddr ==
  [ Current |-> 5042, Voltage |-> 5043, RemainingCharge |-> 5044,
    Capacity |-> 5046, CycleNumber |-> 5048,
    CellVoltage1 |-> 5001, CellVoltage2 |-> 5002,
    CellVoltage3 |-> 5003, CellVoltage4 |-> 5004,
    CellTemp1 |-> 5018, CellTemp2 |-> 5019,
    CellTemp3 |-> 5020, CellTemp4 |-> 5021,
    HeaterLevel |-> 5103 ]

\* a physical value raw * num / den (the f64 product raw as f64 * scale)
Scaled(raw, num, den) == [raw |-> raw, num |-> num, den |-> den]

\* ----------------------------------------------- raw decoding of a reply
\* raw_value is the Vec<u16> of read_register, first word at index 1
\* faulty variant: the word read as a signed integer
read_u16_signed(raw_value) == AsI16(raw_value[1])
read_u16(raw_value) == raw_value[1]
\* faulty variant: the word taken without the cast to i16
read_i16_no_cast(raw_value) == raw_value[1]
read_i16(raw_value) == AsI16(raw_value[1])
\* faulty variant: the two words combined the other way round
read_u32_first_low(raw_value) ==
  AddU32(AsU32(raw_value[1]), Shl16(AsU32(raw_value[2])))
read_u32(raw_value) ==
  AddU32(AsU32(raw_value[2]), Shl16(AsU32(raw_value[1])))

\* ------------------------------------------------------------- accessors
\* each accessor: the register it requests, and its value from the reply
\* faulty variant: current without the byte swap
current_no_swap(raw_value) == Scaled(read_i16(raw_value), 1, 100)
current(raw_value) == Scaled(swap_bytes(read_i16(raw_value)), 1, 100)
voltage(raw_value) == Scaled(read_u16(raw_value), 1, 10)
remaining_charge(raw_value) == Scaled(read_u32(raw_value), 1, 1000)
capacity(raw_value) == Scaled(read_u32(raw_value), 1, 1000)
cycle_number(raw_value) == Scaled(read_u16(raw_value), 1, 1)
cell_voltage_1(raw_value) == Scaled(read_u16(raw_value), 1, 10)
cell_voltage_2(raw_value) == Scaled(read_u16(raw_value), 1, 10)
cell_voltage_3(raw_value) == Scaled(read_u16(raw_value), 1, 10)
cell_voltage_4(raw_value) == Scaled(read_u16(raw_value), 1, 10)
cell_temp_1(raw_value) == Scaled(read_i16(raw_value), 1, 10)
cell_temp_2(raw_value) == Scaled(read_i16(raw_value), 1, 10)
cell_temp_3(raw_value) == Scaled(read_i16(raw_value), 1, 10)
cell_temp_4(raw_value) == Scaled(read_i16(raw_value), 1, 10)
heater_level(raw_value) == Scaled(read_u16(raw_value), 3922, 10000)

\* faulty variant: the fields read in the order BatteryState declares them
ReadAllOrder_declared ==
  << "current", "voltage", "remaining_charge", "capacity", "cycle_number",
     "cell_voltage_1", "cell_voltage_2", "cell_voltage_3", "cell_voltage_4",
     "cell_temp_1", "cell_temp_2", "cell_temp_3", "cell_temp_4",
     "heater_level" >>
\* the quantities, in the order read_all reads them
ReadAllOrder ==
  << "current", "voltage", "remaining_charge", "capacity",
     "cell_voltage_1", "cell_voltage_2", "cell_voltage_3", "cell_voltage_4",
     "cycle_number",
     "cell_temp_1", "cell_temp_2", "cell_temp_3", "cell_temp_4",
     "heater_level" >>
NumQuantities == Len(ReadAllOrder)
Quantities == {ReadAllOrder[i] : i \in 1..NumQuantities}

\* faulty variant: cell_voltage_2 written as a copy of cell_voltage_1
Request_copy_paste(q) ==
  CASE q = "current"          -> [addr |-> RegAddr.Current, size |-> 1]
    [] q = "voltage"          -> [addr |-> RegAddr.Voltage, size |-> 1]
    [] q = "remaining_charge" -> [addr |-> RegAddr.RemainingCharge, size |-> 2]
    [] q = "capacity"         -> [addr |-> RegAddr.Capacity, size |-> 2]
    [] q = "cycle_number"     -> [addr |-> RegAddr.CycleNumber, size |-> 1]
    [] q = "cell_voltage_1"   -> [addr |-> RegAddr.CellVoltage1, size |-> 1]
    [] q = "cell_voltage_2"   -> [addr |-> RegAddr.CellVoltage1, size |-> 1]
    [] q = "cell_voltage_3"   -> [addr |-> RegAddr.CellVoltage3, size |-> 1]
    [] q = "cell_voltage_4"   -> [addr |-> RegAddr.CellVoltage4, size |-> 1]
    [] q = "cell_temp_1"      -> [addr |-> RegAddr.CellTemp1, size |-> 1]
    [] q = "cell_temp_2"      -> [addr |-> RegAddr.CellTemp2, size |-> 1]
    [] q = "cell_temp_3"      -> [addr |-> RegAddr.CellTemp3, size |-> 1]
    [] q = "cell_temp_4"      -> [addr |-> RegAddr.CellTemp4, size |-> 1]
    [] q = "heater_level"     -> [addr |-> RegAddr.HeaterLevel, size |-> 1]
\* the (addr, size) an accessor passes down to read_register
Request(q) ==
  CASE q = "current"          -> [addr |-> RegAddr.Current, size |-> 1]
    [] q = "voltage"          -> [addr |-> RegAddr.Voltage, size |-> 1]
    [] q = "remaining_charge" -> [addr |-> RegAddr.RemainingCharge, size |-> 2]
    [] q = "capacity"         -> [addr |-> RegAddr.Capacity, size |-> 2]
    [] q = "cycle_number"     -> [addr |-> RegAddr.CycleNumber, size |-> 1]
    [] q = "cell_voltage_1"   -> [addr |-> RegAddr.CellVoltage1, size |-> 1]
    [] q = "cell_voltage_2"   -> [addr |-> RegAddr.CellVoltage2, size |-> 1]
    [] q = "cell_voltage_3"   -> [addr |-> RegAddr.CellVoltage3, size |-> 1]
    [] q = "cell_voltage_4"   -> [addr |-> RegAddr.CellVoltage4, size |-> 1]
    [] q = "cell_temp_1"      -> [addr |-> RegAddr.CellTemp1, size |-> 1]
    [] q = "cell_temp_2"      -> [addr |-> RegAddr.CellTemp2, size |-> 1]
    [] q = "cell_temp_3"      -> [addr |-> RegAddr.CellTemp3, size |-> 1]
    [] q = "cell_temp_4"      -> [addr |-> RegAddr.CellTemp4, size |-> 1]
    [] q = "heater_level"     -> [addr |-> RegAddr.HeaterLevel, size |-> 1]

\* the value an accessor returns from the words read_register gave it
Accessor(q, raw_value) ==
  CASE q = "current"          -> current(raw_value)
    [] q = "voltage"          -> voltage(raw_value)
    [] q = "remaining_charge" -> remaining_charge(raw_value)
    [] q = "capacity"         -> capacity(raw_value)
    [] q = "cycle_number"     -> cycle_number(raw_value)
    [] q = "cell_voltage_1"   -> cell_voltage_1(raw_value)
    [] q = "cell_voltage_2"   -> cell_voltage_2(raw_value)
    [] q = "cell_voltage_3"   -> cell_voltage_3(raw_value)
    [] q = "cell_voltage_4"   -> cell_voltage_4(raw_value)
    [] q = "cell_temp_1"      -> cell_temp_1(raw_value)
    [] q = "cell_temp_2"      -> cell_temp_2(raw_value)
    [] q = "cell_temp_3"      -> cell_temp_3(raw_value)
    [] q = "cell_temp_4"      -> cell_temp_4(raw_value)
    [] q = "heater_level"     -> heater_level(raw_value)

\* BatteryState built by read_all from the values in evaluation order
FieldIndex(name) == CHOOSE i \in 1..NumQuantities : ReadAllOrder[i] = name
BatteryState(vals) == [name \in Quantities |-> vals[FieldIndex(name)]]

\* -------------------------------------------------------------- Port::new
RENOGY_BAUDRATE == 9600
\* tokio_serial::new(dev, RENOGY_BAUDRATE).timeout(Duration::from_millis(400))
SerialBuilder(d) ==
  [path |-> d, baud_rate |-> RENOGY_BAUDRATE, timeout_ms |-> 400]

\* tokio_serial::ErrorKind, and the Error that SerialStream::open returns
SerialIo(k) == [class |-> "Io", io |-> k]
SerialNoDevice == [class |-> "NoDevice", io |-> "-"]
SerialInvalidInput == [class |-> "InvalidInput", io |-> "-"]
SerialUnknown == [class |-> "Unknown", io |-> "-"]
SerialError(k, d) == [kind |-> k, description |-> d]

\* faulty variant: the NoDevice arm falls into the Unknown one
new_error_catch_all(e) ==
  CASE e.kind.class = "Io"           -> Io(e.kind.io)
    [] e.kind.class = "InvalidInput" -> InvalidInput(e.description)
    [] OTHER                         -> Unknown(e.description)
\* the inner match of Port::new on e.kind
new_error(e) ==
  CASE e.kind.class = "Io"           -> Io(e.kind.io)
    [] e.kind.class = "NoDevice"     -> NoDevice(e.description)
    [] e.kind.class = "InvalidInput" -> InvalidInput(e.description)
    [] e.kind.class = "Unknown"      -> Unknown(e.description)

\* rtu::attach(serial): the Modbus context over the opened stream
attach(stream) == [transport |-> stream]

\* Port::new: the open failure converted and returned, or the Port
new(opened) ==
  IF opened.tag = "Err" THEN Err(new_error(opened.err))
  ELSE Ok([ctx |-> attach(opened.val)])

\* ------------------------------------------------------------- the state
VARIABLES
  addr,        \* Battery.addr of the handle each task drives
  slave,       \* active slave id of the Port's Modbus context
  lastOp,      \* the last operation performed on the context, and by whom
  holder,      \* task holding the Port mutex guard, 0 when free
  waiters,     \* tasks suspended in lock().await, oldest first
  inflight,    \* requests issued and neither answered nor abandoned
  dev,         \* register image each device on the bus currently exposes
  pc,          \* position of each task in its call
  op,          \* the Battery method each task is running
  acc,         \* values read_all has collected so far
  nreq,        \* requests issued so far by the task's current call
  nlock,       \* lock guards obtained so far by the task's current call
  nset,        \* set_slave calls made so far by the task's current call
  firstOk,     \* the first BatteryState a read_all returned, and to which Battery
  seen,        \* per task: the device image behind each value its read_all got
  between,     \* tasks whose read_all saw another handle's transaction mid-call
  ret,         \* what the step just taken handed back to a caller
  dq, dwords, dout,  \* decode harness: quantity, reply words, decoded value
  path,        \* the device path handed to Port::new
  serial,      \* what SerialStream::open returned for it
  port         \* what Port::new returned, None while it has not

vars == << addr, slave, lastOp, holder, waiters, inflight, dev,
           pc, op, acc, nreq, nlock, nset, firstOk, seen, between, ret,
           dq, dwords, dout,
           path, serial, port >>

portVars == << slave, lastOp, holder, waiters, inflight >>
devVars == << dev >>
decVars == << dq, dwords, dout >>
openVars == << path, serial, port >>
histVars == << firstOk, seen, between >>

\* the slave ids of the example program: 246, 247, ...
BatteryAddr(t) == 245 + t
\* the slave id test() selects
TestSlave == 240
\* the batteries on the bus: the manufacturer's ids 240, 246, 247, ...
Devices == {BatteryAddr(t) : t \in Tasks} \cup {TestSlave}

\* the word a device holds in register a while it shows image img
RegWord(img, s, a) == (a * 24593 + s * 257 + img * 40961) % U16
\* the reply of slave s to read_holding_registers(a, size)
DeviceWords(s, a, size) == [i \in 1..size |-> RegWord(dev[s], s, a + i - 1)]

NoOp == [kind |-> "none", by |-> 0]
NoRet == [tag |-> "None"]

PortInit ==
  /\ addr = [t \in Tasks |-> BatteryAddr(t)]
  /\ slave = 0
  /\ lastOp = NoOp
  /\ holder = 0
  /\ waiters = << >>
  /\ inflight = {}
  /\ dev = [s \in Devices |-> 1]
  /\ pc = [t \in Tasks |-> "idle"]
  /\ op = [t \in Tasks |-> "-"]
  /\ acc = [t \in Tasks |-> << >>]
  /\ nreq = [t \in Tasks |-> 0]
  /\ nlock = [t \in Tasks |-> 0]
  /\ nset = [t \in Tasks |-> 0]
  /\ firstOk = None
  /\ seen = [t \in Tasks |-> << >>]
  /\ between = {}
  /\ ret = NoRet

\* the Port the Battery handles share has been opened
Opened ==
  /\ path = "/dev/ttyUSB0"
  /\ serial = Ok(SerialBuilder(path))
  /\ port = new(serial)

Init ==
  /\ PortInit
  /\ Opened
  /\ dq = "-"
  /\ dwords = << >>
  /\ dout = None

\* ------------------------------------------------------------ operations
Ops == Quantities \cup {"read_all", "test"}

\* the quantity whose accessor task t is running
CurQ(t) == IF op[t] = "read_all" THEN ReadAllOrder[Len(acc[t]) + 1] ELSE op[t]

\* faulty variant: the guard is leaked
ReleaseLeak(t) == holder
\* the MutexGuard of task t goes out of scope
Release(t) == IF holder = t THEN 0 ELSE holder

Without(seq, t) == SelectSeq(seq, LAMBDA x : x # t)

\* a task calls a method of its Battery and runs up to self.port.lock().await
Call(t, o) ==
  /\ pc[t] = "idle"
  /\ o \in Ops
  /\ op' = [op EXCEPT ![t] = o]
  /\ acc' = [acc EXCEPT ![t] = << >>]
  /\ nreq' = [nreq EXCEPT ![t] = 0]
  /\ nlock' = [nlock EXCEPT ![t] = 0]
  /\ nset' = [nset EXCEPT ![t] = 0]
  /\ waiters' = Append(waiters, t)
  /\ pc' = [pc EXCEPT ![t] = "lock_wait"]
  /\ ret' = NoRet
  /\ UNCHANGED << addr, slave, lastOp, holder, inflight, devVars, histVars,
                  decVars, openVars >>

\* lock().await resolves (the mutex is free and t is the oldest waiter) and
\* the task runs on, without suspending, through the statements that follow:
\* in read_register port.ctx.set_slave(Slave(self.addr)), up to the blocking
\* sleep; in test() set_slave(Slave(240)), up to the end of the function
\* where the guard is dropped
Locked(t, free, id) ==
  /\ pc[t] = "lock_wait"
  /\ free
  /\ waiters # << >> /\ Head(waiters) = t
  /\ waiters' = Tail(waiters)
  /\ slave' = id
  /\ lastOp' = [kind |-> "set_slave", by |-> t]
  /\ UNCHANGED << addr, inflight, devVars, histVars, decVars, openVars >>

\* faulty variant: a lock that excludes nobody
lock_no_exclusion(t) == TRUE
\* self.port.lock(): granted only while no guard is out
lock(t) == holder = 0

\* faulty variants: the slave id of test() used for reads; the slave id set
\* only while the context still has its initial one
set_slave_fixed(t) == TestSlave
set_slave_once(t) == IF slave = 0 THEN addr[t] ELSE slave
\* the id read_register passes to port.ctx.set_slave
set_slave(t) == addr[t]

read_register_enter(t) ==
  /\ op[t] # "test"
  /\ Locked(t, lock(t), set_slave(t))
  /\ holder' = t
  /\ nlock' = [nlock EXCEPT ![t] = @ + 1]
  /\ nset' = [nset EXCEPT ![t] = @ + 1]
  /\ pc' = [pc EXCEPT ![t] = "sleeping"]
  /\ ret' = NoRet
  /\ UNCHANGED << op, acc, nreq >>

\* port.ctx.read_holding_registers(addr, size) is issued and awaited under
\* timeout(TIMEOUT, ..): the frame goes to the context's active slave
read_holding_registers(t) ==
  /\ pc[t] = "sleeping"
  /\ inflight' = inflight \cup
       {[by |-> t, slave |-> slave, addr |-> Request(CurQ(t)).addr,
         size |-> Request(CurQ(t)).size, prev |-> lastOp]}
  /\ lastOp' = [kind |-> "request", by |-> t]
  /\ nreq' = [nreq EXCEPT ![t] = @ + 1]
  /\ pc' = [pc EXCEPT ![t] = "awaiting"]
  /\ ret' = NoRet
  /\ UNCHANGED << addr, slave, holder, waiters, devVars, op, acc,
                  nlock, nset, histVars, decVars, openVars >>

\* the match on timeout(..).await: what read_register returns
Elapsed == [tag |-> "Elapsed"]
Done(res) == [tag |-> "Done", res |-> res]
\* faulty variant: an engine failure of kind TimedOut reported as Timeout
read_register_result_lossy(to) ==
  IF to.tag = "Elapsed" THEN Err(Timeout)
  ELSE IF to.res.tag = "Ok" THEN Ok(to.res.val)
  ELSE IF to.res.err = "TimedOut" THEN Err(Timeout)
  ELSE Err(Io(to.res.err))
read_register_result(to) ==
  IF to.tag = "Elapsed" THEN Err(Timeout)
  ELSE IF to.res.tag = "Ok" THEN Ok(to.res.val)
  ELSE Err(Io(to.res.err))

\* the event handed back when task t's call ends (or one sub-read of it)
Returned(t, to, rr, fin, res) ==
  [tag |-> "Return", by |-> t, op |-> op[t], q |-> CurQ(t), engine |-> to,
   rr |-> rr, done |-> fin, result |-> res, nreq |-> nreq[t],
   nlock |-> nlock[t], nset |-> nset[t], nacc |-> Len(acc[t])]

\* task t's call is over: it holds nothing of the call any more
CallOver(t) ==
  /\ pc' = [pc EXCEPT ![t] = "idle"]
  /\ op' = [op EXCEPT ![t] = "-"]
  /\ acc' = [acc EXCEPT ![t] = << >>]
  /\ nreq' = [nreq EXCEPT ![t] = 0]
  /\ nlock' = [nlock EXCEPT ![t] = 0]
  /\ nset' = [nset EXCEPT ![t] = 0]

\* a single accessor after read_register returned rr: `?`, then decode
accessor(t, to, rr) ==
  /\ ret' = Returned(t, to, rr, TRUE,
                     IF rr.tag = "Ok" THEN Ok(Accessor(op[t], rr.val)) ELSE rr)
  /\ CallOver(t)
  /\ UNCHANGED waiters

\* read_all after the accessor of quantity CurQ(t) got rr from read_register:
\* `?` returns the error, otherwise the value is kept and the next accessor
\* runs up to its lock().await; after the last one the BatteryState is built
\* faulty variant of read_all (below): a failed sub-read is skipped
read_all_keep_going(t, to, rr) ==
  LET vals == Append(acc[t], IF rr.tag = "Ok" THEN Accessor(CurQ(t), rr.val)
                             ELSE Scaled(0, 1, 1))
  IN IF Len(vals) = NumQuantities
     THEN /\ ret' = Returned(t, to, rr, TRUE, Ok(BatteryState(vals)))
          /\ CallOver(t)
          /\ UNCHANGED waiters
     ELSE /\ ret' = Returned(t, to, rr, FALSE, None)
          /\ acc' = [acc EXCEPT ![t] = vals]
          /\ waiters' = Append(waiters, t)
          /\ pc' = [pc EXCEPT ![t] = "lock_wait"]
          /\ UNCHANGED << op, nreq, nlock, nset >>
\* faulty variant of read_all: the next sub-read keeps its turn on the Port
read_all_keeps_turn(t, to, rr) ==
  IF rr.tag = "Err"
  THEN /\ ret' = Returned(t, to, rr, TRUE, rr)
       /\ CallOver(t)
       /\ UNCHANGED waiters
  ELSE LET vals == Append(acc[t], Accessor(CurQ(t), rr.val))
       IN IF Len(vals) = NumQuantities
          THEN /\ ret' = Returned(t, to, rr, TRUE, Ok(BatteryState(vals)))
               /\ CallOver(t)
               /\ UNCHANGED waiters
          ELSE /\ ret' = Returned(t, to, rr, FALSE, None)
               /\ acc' = [acc EXCEPT ![t] = vals]
               /\ waiters' = << t >> \o waiters
               /\ pc' = [pc EXCEPT ![t] = "lock_wait"]
               /\ UNCHANGED << op, nreq, nlock, nset >>
read_all(t, to, rr) ==
  IF rr.tag = "Err"
  THEN /\ ret' = Returned(t, to, rr, TRUE, rr)
       /\ CallOver(t)
       /\ UNCHANGED waiters
  ELSE LET vals == Append(acc[t], Accessor(CurQ(t), rr.val))
       IN IF Len(vals) = NumQuantities
          THEN /\ ret' = Returned(t, to, rr, TRUE, Ok(BatteryState(vals)))
               /\ CallOver(t)
               /\ UNCHANGED waiters
          ELSE /\ ret' = Returned(t, to, rr, FALSE, None)
               /\ acc' = [acc EXCEPT ![t] = vals]
               /\ waiters' = Append(waiters, t)
               /\ pc' = [pc EXCEPT ![t] = "lock_wait"]
               /\ UNCHANGED << op, nreq, nlock, nset >>

\* read_register returns: the guard is dropped, the caller continues
ReadRegisterReturns(t, to) ==
  /\ inflight' = {r \in inflight : r.by # t}
  /\ holder' = Release(t)
  /\ IF op[t] = "read_all"
     THEN read_all(t, to, read_register_result(to))
     ELSE accessor(t, to, read_register_result(to))
  /\ UNCHANGED << addr, slave, lastOp, devVars, decVars, openVars >>

\* the engine completes the request before the timer: the addressed slave's
\* words, or a transport failure of some kind
Completed(t) ==
  /\ pc[t] = "awaiting"
  /\ \E r \in {x \in inflight : x.by = t} :
       \E res \in (IF r.slave \in DOMAIN dev
                   THEN {Ok(DeviceWords(r.slave, r.addr, r.size))} ELSE {})
                  \cup {Err(k) : k \in IoKinds} :
         ReadRegisterReturns(t, Done(res))

\* faulty variant: after the first expiry the request is sent once more
TimerElapsedRetry(t) ==
  /\ pc[t] = "awaiting"
  /\ IF nreq[t] <= Len(acc[t]) + 1
     THEN /\ inflight' = {r \in inflight : r.by # t}
          /\ pc' = [pc EXCEPT ![t] = "sleeping"]
          /\ ret' = NoRet
          /\ UNCHANGED << addr, slave, lastOp, holder, waiters, devVars,
                          op, acc, nreq, nlock, nset, decVars, openVars >>
     ELSE ReadRegisterReturns(t, Elapsed)
\* the 200 ms timer fires first: the request is abandoned
TimerElapsed(t) ==
  /\ pc[t] = "awaiting"
  /\ ReadRegisterReturns(t, Elapsed)

\* faulty variant of test: a request is sent to slave 240 and not awaited
test_sends_request(t) ==
  /\ op[t] = "test"
  /\ pc[t] = "lock_wait"
  /\ lock(t)
  /\ waiters # << >> /\ Head(waiters) = t
  /\ waiters' = Tail(waiters)
  /\ slave' = TestSlave
  /\ lastOp' = [kind |-> "request", by |-> t]
  /\ inflight' = inflight \cup
       {[by |-> t, slave |-> TestSlave, addr |-> RegAddr.Voltage, size |-> 1,
         prev |-> [kind |-> "set_slave", by |-> t]]}
  /\ holder' = holder
  /\ ret' = [tag |-> "Return", by |-> t, op |-> "test", done |-> TRUE,
             result |-> Ok("unit"), nreq |-> nreq[t] + 1,
             nlock |-> nlock[t] + 1, nset |-> nset[t] + 1]
  /\ CallOver(t)
  /\ UNCHANGED << addr, devVars, histVars, decVars, openVars >>
\* test(): lock().await, set_slave(Slave(240)), then the guard is dropped
test(t) ==
  /\ op[t] = "test"
  /\ Locked(t, lock(t), TestSlave)
  /\ holder' = holder
  /\ ret' = [tag |-> "Return", by |-> t, op |-> "test", done |-> TRUE,
             result |-> Ok("unit"), nreq |-> nreq[t],
             nlock |-> nlock[t] + 1, nset |-> nset[t] + 1]
  /\ CallOver(t)

\* faulty variant of Cancel: the dropped future stays in the lock's queue
CancelStaysQueued(t) ==
  /\ pc[t] \in {"lock_wait", "awaiting"}
  /\ waiters' = waiters
  /\ inflight' = {r \in inflight : r.by # t}
  /\ holder' = Release(t)
  /\ ret' = [tag |-> "Cancelled", by |-> t, at |-> pc[t]]
  /\ CallOver(t)
  /\ UNCHANGED << addr, slave, lastOp, devVars, histVars, decVars, openVars >>
\* the future of task t is dropped at one of its await points
Cancel(t) ==
  /\ pc[t] \in {"lock_wait", "awaiting"}
  /\ waiters' = Without(waiters, t)
  /\ inflight' = {r \in inflight : r.by # t}
  /\ holder' = Release(t)
  /\ ret' = [tag |-> "Cancelled", by |-> t, at |-> pc[t]]
  /\ CallOver(t)
  /\ UNCHANGED << addr, slave, lastOp, devVars, histVars, decVars, openVars >>

\* the two ways a read ends, with no snapshot kept by the caller
Answered(t) == Completed(t) /\ UNCHANGED histVars
Expired(t) == TimerElapsed(t) /\ UNCHANGED histVars

Next ==
  \E t \in Tasks :
    \/ \E o \in Ops : Call(t, o)
    \/ read_register_enter(t)
    \/ read_holding_registers(t)
    \/ Answered(t)
    \/ Expired(t)
    \/ test(t)
    \/ Cancel(t)

Spec == Init /\ [][Next]_vars

\* ------------------------------------------------- fairness for liveness
\* the runtime polls every ready task, the engine or the timer ends every
\* wait; nothing obliges a caller to call, or to cancel
Fairness ==
  \A t \in Tasks :
    /\ WF_vars(read_register_enter(t))
    /\ WF_vars(read_holding_registers(t))
    /\ WF_vars(Answered(t) \/ Expired(t))
    /\ WF_vars(test(t))

LiveOps == {"read_all", "test", "capacity"}
LiveNext ==
  \E t \in Tasks :
    \/ \E o \in LiveOps : Call(t, o)
    \/ read_register_enter(t)
    \/ read_holding_registers(t)
    \/ Answered(t)
    \/ Expired(t)
    \/ test(t)
    \/ Cancel(t)
LiveSpec == Init /\ [][LiveNext]_vars /\ Fairness

\* --------------------------------------------------- repeated snapshots
\* the caller keeps the first BatteryState a read_all returns and notes when
\* the same Battery gets another one
Keep ==
  firstOk' =
    IF /\ ret'.tag = "Return" /\ ret'.done /\ ret'.op = "read_all"
       /\ ret'.result.tag = "Ok"
    THEN IF firstOk.tag = "None"
         THEN [tag |-> "Some", addr |-> addr[ret'.by],
               state |-> ret'.result.val, again |-> FALSE]
         ELSE IF firstOk.addr = addr[ret'.by]
              THEN [firstOk EXCEPT !.again = TRUE]
              ELSE firstOk
    ELSE firstOk

AnsweredKept(t) == Completed(t) /\ Keep /\ UNCHANGED << seen, between >>
ExpiredKept(t) == TimerElapsed(t) /\ Keep /\ UNCHANGED << seen, between >>

SnapshotOps == {"read_all", "test"}

SnapshotNext ==
  \E t \in Tasks :
    \/ \E o \in SnapshotOps : Call(t, o)
    \/ read_register_enter(t)
    \/ read_holding_registers(t)
    \/ AnsweredKept(t)
    \/ ExpiredKept(t)
    \/ test(t)
    \/ Cancel(t)

SnapshotSpec == Init /\ [][SnapshotNext]_vars

\* ------------------------------------------- a snapshot on a live device
\* a battery's registers move on to their next values
DeviceChange(s) ==
  /\ dev[s] = 1
  /\ dev' = [dev EXCEPT ![s] = 2]
  /\ ret' = NoRet
  /\ UNCHANGED << addr, portVars, pc, op, acc, nreq, nlock, nset,
                  histVars, decVars, openVars >>

\* bookkeeping when read_register of task t returns: the image behind each
\* value a read_all has collected, and which read_all calls had another
\* handle's answered transaction after their first sub-read
See(t) ==
  LET got == ret'.tag = "Return" /\ ret'.rr.tag = "Ok"
      first == op[t] = "read_all" /\ Len(acc[t]) = 0
      mid == {u \in Tasks \ {t} : op[u] = "read_all" /\ Len(acc[u]) > 0}
  IN /\ seen' = [seen EXCEPT ![t] =
                   IF ~got \/ op[t] # "read_all" THEN << >>
                   ELSE IF first THEN << dev[addr[t]] >>
                   ELSE Append(@, dev[addr[t]])]
     /\ between' = IF ~got THEN between \ {t}
                   ELSE IF first THEN (between \ {t}) \cup mid
                   ELSE between \cup mid

AnsweredSeen(t) == Completed(t) /\ See(t) /\ UNCHANGED firstOk
ExpiredSeen(t) == TimerElapsed(t) /\ See(t) /\ UNCHANGED firstOk

\* one handle takes snapshots while the others poll their voltage
LiveDeviceOps(t) == IF t = 1 THEN {"read_all"} ELSE {"voltage"}

LiveDeviceNext ==
  \/ \E t \in Tasks :
       \/ \E o \in LiveDeviceOps(t) : Call(t, o)
       \/ read_register_enter(t)
       \/ read_holding_registers(t)
       \/ AnsweredSeen(t)
       \/ ExpiredSeen(t)
       \/ Cancel(t)
  \/ \E t \in Tasks : DeviceChange(addr[t])

LiveDeviceSpec == Init /\ [][LiveDeviceNext]_vars

\* ------------------------------------------------------- decode harness
\* reply words worth trying: the boundaries of 8 and 16 bit fields
Words16 ==
  {0, 1, 100, 127, 128, 255, 256, 10000, 25600, 32767, 32768, 32769,
   43981, 65280, 65534, 65535}

\* some accessor has been called and read_register has returned Ok(dwords)
DecodeInit ==
  /\ PortInit
  /\ Opened
  /\ dq \in Quantities
  /\ dwords \in [1..Request(dq).size -> Words16]
  /\ dout = None

\* the accessor decodes the reply and returns
Decode ==
  /\ dout.tag = "None"
  /\ dout' = Ok(Accessor(dq, dwords))
  /\ UNCHANGED << addr, portVars, devVars, pc, op, acc, nreq, nlock, nset,
                  histVars, ret, dq, dwords, openVars >>

DecodeSpec == DecodeInit /\ [][Decode]_vars

\* ------------------------------------------------------ Port::new harness
\* device paths a caller may pass, and how the transport may fail on them
DevPaths == {"/dev/ttyUSB0", "/dev/ttyUSB1", "/dev/nonexistent"}
OpenIoKinds == {"NotFound", "PermissionDenied", "Other"}
SerialErrorKinds ==
  {SerialNoDevice, SerialInvalidInput, SerialUnknown}
    \cup {SerialIo(k) : k \in OpenIoKinds}
Descriptions ==
  {"No such file or directory", "Permission denied", "Invalid argument"}

\* SerialStream::open has returned for some path; Port::new has not yet
OpenInit ==
  /\ PortInit
  /\ dq = "-"
  /\ dwords = << >>
  /\ dout = None
  /\ path \in DevPaths
  /\ serial \in {Ok(SerialBuilder(path))}
                 \cup {Err(SerialError(k, d)) :
                         k \in SerialErrorKinds, d \in Descriptions}
  /\ port = None

\* Port::new runs on from the open call to its return
Port_new ==
  /\ port.tag = "None"
  /\ port' = new(serial)
  /\ UNCHANGED << addr, portVars, devVars, pc, op, acc, nreq, nlock, nset,
                  histVars, ret, decVars, path, serial >>

OpenSpec == OpenInit /\ [][Port_new]_vars

\* ================================================================ claims
Held == {"sleeping", "awaiting"}
IsReadReturn == ret.tag = "Return" /\ ret.op # "test"
IsReadAllReturn == ret.tag = "Return" /\ ret.op = "read_all"
SetBy(t) == [kind |-> "set_slave", by |-> t]

\* C1: every read-holding-registers request on the Port goes out with the
\* active slave id equal to the issuing Battery's addr, and the last thing
\* done to the context before it was the set_slave of that same handle; from
\* that set_slave to the end of the request no other handle touches the
\* context.
C1_RequestFollowsOwnSetSlave ==
  /\ \A r \in inflight : r.slave = addr[r.by] /\ r.prev = SetBy(r.by)
  /\ \A t \in Tasks :
       /\ pc[t] = "sleeping" => slave = addr[t] /\ lastOp = SetBy(t)
       /\ pc[t] = "awaiting" =>
            slave = addr[t] /\ lastOp = [kind |-> "request", by |-> t]

\* C1 witness: a request of one handle is in flight, correctly addressed,
\* while another handle's call is suspended on the lock.
C1_Witness ==
  \E r \in inflight : \E u \in Tasks :
    /\ u # r.by /\ pc[u] = "lock_wait"
    /\ r.slave = addr[r.by] /\ r.slave # addr[u]

\* C2: at most one request is in flight on the Port, and it belongs to the
\* task that is awaiting its response.
C2_OneInFlight ==
  /\ Cardinality(inflight) <= 1
  /\ \A r \in inflight : pc[r.by] = "awaiting" /\ holder = r.by

\* C2 witness: one request in flight while every other task wants the Port.
C2_Witness ==
  /\ Cardinality(inflight) = 1
  /\ \A r \in inflight : \A u \in Tasks \ {r.by} :
       pc[u] = "lock_wait" /\ op[u] # "test"

\* C3 as claimed: a two-word quantity decodes to w0 + (w1 << 16), the first
\* word returned holding the least-significant 16 bits.
C3_FirstWordLow ==
  (dout.tag = "Ok" /\ dq \in {"remaining_charge", "capacity"}) =>
    dout.val.raw = U32(dwords[2], dwords[1])

\* C3 amended: a two-word quantity decodes to w1 + (w0 << 16): the first
\* word returned holds the most-significant 16 bits, the second the least;
\* the scale is 0.001.
C3_FirstWordHigh ==
  (dout.tag = "Ok" /\ dq \in {"remaining_charge", "capacity"}) =>
    dout.val = Scaled(U32(dwords[1], dwords[2]), 1, 1000)

\* C3 witness: the words [0x0000, 0x2710] decode to 10000, and the words
\* [0x2710, 0x0000] to 0x27100000.
C3_Witness ==
  /\ dq = "remaining_charge" /\ dout.tag = "Ok"
  /\ \/ dwords = << 0, 10000 >> /\ dout.val.raw = U32(0, 10000)
     \/ dwords = << 10000, 0 >> /\ dout.val.raw = U32(10000, 0)

\* C4: read_all is fail-fast. A failing sub-read ends the call with that
\* very error after exactly as many requests as quantities tried; the call
\* goes on (and only then) after a successful sub-read that is not the last;
\* a BatteryState comes back only after 14 successful sub-reads.
C4_ReadAllFailFast ==
  IsReadAllReturn =>
    /\ ret.nreq = ret.nacc + 1
    /\ ret.rr.tag = "Err" =>
         /\ ret.done /\ ret.result = ret.rr
         /\ pc[ret.by] = "idle" /\ \A r \in inflight : r.by # ret.by
         /\ \A i \in 1..Len(waiters) : waiters[i] # ret.by
    /\ ret.done /\ ret.result.tag = "Ok" =>
         ret.rr.tag = "Ok" /\ ret.nreq = NumQuantities
    /\ ret.done => ret.result.tag \in {"Ok", "Err"}
    /\ ~ret.done => ret.rr.tag = "Ok" /\ ret.nreq < NumQuantities

\* C4 witness: the sixth sub-read of a read_all times out and the call
\* returns Timeout.
C4_Witness ==
  /\ IsReadAllReturn /\ ret.done
  /\ ret.nacc = 5 /\ ret.rr = Err(Timeout) /\ ret.result = Err(Timeout)

\* C5: the Port lock is held only by a call between its lock acquisition and
\* its exit; whatever way a call ends (result, error, timeout, cancellation
\* while waiting for the lock or for the response) it holds the lock no more.
C5_LockReleasedOnExit ==
  /\ holder # 0 => pc[holder] \in Held
  /\ ret.tag \in {"Return", "Cancelled"} => holder # ret.by
  /\ \A t \in Tasks : pc[t] \in {"idle", "lock_wait"} => holder # t

\* C5 witness: a task was cancelled while awaiting the response, the lock is
\* free and another task is waiting for it.
C5_Witness ==
  /\ ret.tag = "Cancelled" /\ ret.at = "awaiting"
  /\ holder = 0
  /\ \E u \in Tasks : pc[u] = "lock_wait"

\* C6: under fair scheduling no task waits for the Port lock for ever (it
\* gets the lock, or is cancelled) and no task holds it for ever (its read
\* comes back with words, an Io error or Timeout, or is cancelled), whatever
\* the other tasks and the device do.
C6_NoStarvation ==
  \A t \in Tasks :
    /\ []<>(pc[t] # "lock_wait")
    /\ []<>(pc[t] \notin Held)

\* C6 witness: a request that got no answer has timed out, the lock is free
\* again and the oldest waiter, another handle in a read, can take it.
C6_Witness ==
  /\ IsReadReturn /\ ret.engine.tag = "Elapsed"
  /\ holder = 0 /\ waiters # << >>
  /\ Head(waiters) # ret.by /\ op[Head(waiters)] # "test"

\* C7: read_register returns Timeout exactly when the timer elapsed first,
\* Io(kind) with the engine's kind exactly when the engine failed, and the
\* engine's words unchanged otherwise.
C7_OutcomeClassified ==
  IsReadReturn =>
    /\ (ret.rr = Err(Timeout)) <=> (ret.engine.tag = "Elapsed")
    /\ \A k \in IoKinds :
         (ret.rr = Err(Io(k))) <=>
           (ret.engine.tag = "Done" /\ ret.engine.res = Err(k))
    /\ (ret.rr.tag = "Ok") <=>
         (ret.engine.tag = "Done" /\ ret.engine.res.tag = "Ok")
    /\ ret.rr.tag = "Ok" => ret.rr.val = ret.engine.res.val

\* C7 witness: the engine failed with kind TimedOut and read_register
\* returned Io(TimedOut), not Timeout.
C7_Witness ==
  /\ IsReadReturn
  /\ ret.engine = Done(Err("TimedOut"))
  /\ ret.rr = Err(Io("TimedOut"))

\* C8: current() swaps the two bytes of the word, reads the result as a
\* signed 16-bit integer and scales by 0.01.
C8_CurrentSwapsThenSigns ==
  (dout.tag = "Ok" /\ dq = "current") =>
    LET w == dwords[1]
        sw == (w % 256) * 256 + (w \div 256)
    IN dout.val = Scaled(sw - 65536 * (sw \div 32768), 1, 100)

\* C8 witness: word 0x6400 decodes to raw 100, or word 0xFFFF to raw -1.
C8_Witness ==
  /\ dq = "current" /\ dout.tag = "Ok"
  /\ \/ dwords = << 25600 >> /\ dout.val.raw = 100
     \/ dwords = << 65535 >> /\ dout.val.raw = -1

\* C9: cell_temp_1..4 decode the word as a two's-complement signed 16-bit
\* integer (w below 0x8000, w - 0x10000 otherwise), scaled by 0.1.
C9_CellTempSigned ==
  (dout.tag = "Ok" /\
   dq \in {"cell_temp_1", "cell_temp_2", "cell_temp_3", "cell_temp_4"}) =>
    LET w == dwords[1]
    IN dout.val = Scaled(w - 65536 * (w \div 32768), 1, 10)

\* C9 witness: word 0x8000 decodes to raw -32768.
C9_Witness ==
  /\ dq = "cell_temp_3" /\ dout.tag = "Ok"
  /\ dwords = << 32768 >> /\ dout.val.raw = -32768

\* C10: with unchanging device registers, every BatteryState a Battery gets
\* from read_all equals the first one that Battery got, whatever calls of
\* this and other handles ran in between.
C10_ReadAllIdempotent ==
  (IsReadAllReturn /\ ret.done /\ ret.result.tag = "Ok" /\
   firstOk.tag = "Some" /\ firstOk.addr = addr[ret.by]) =>
    ret.result.val = firstOk.state

\* C10 witness: a Battery gets a BatteryState again while another handle is
\* in the middle of its own read_all.
C10_Witness ==
  /\ IsReadAllReturn /\ ret.done /\ ret.result.tag = "Ok"
  /\ firstOk.tag = "Some" /\ firstOk.again /\ firstOk.addr = addr[ret.by]
  /\ \E u \in Tasks \ {ret.by} :
       op[u] = "read_all" /\ Len(acc[u]) > 0 /\ pc[u] = "lock_wait"

\* C11: Port::new keeps the transport's failure class: NoDevice gives
\* Error::NoDevice, InvalidInput gives Error::InvalidInput, Unknown gives
\* Error::Unknown, each with the transport's description, Io(kind) gives
\* Error::Io of the same kind; a Port is returned exactly when the transport
\* opened, and it wraps the stream opened on the given path at 9600 baud.
C11_OpenErrorClassKept ==
  port.tag # "None" =>
    /\ port.tag = "Ok" <=> serial.tag = "Ok"
    /\ port.tag = "Ok" =>
         /\ port.val.ctx.transport = serial.val
         /\ serial.val.path = path /\ serial.val.baud_rate = 9600
    /\ port.tag = "Err" =>
         /\ port.err.kind = serial.err.kind.class
         /\ port.err.kind \in {"NoDevice", "InvalidInput", "Unknown", "Io"}
         /\ port.err.kind = "Io" =>
              port.err = [kind |-> "Io", io |-> serial.err.kind.io]
         /\ port.err.kind # "Io" =>
              port.err = [kind |-> port.err.kind,
                          description |-> serial.err.description]

\* C11 witness: the transport reported NoDevice for a path and Port::new
\* returned Error::NoDevice with the transport's description.
C11_Witness ==
  /\ path = "/dev/nonexistent"
  /\ serial = Err(SerialError(SerialNoDevice, "No such file or directory"))
  /\ port = Err(NoDevice("No such file or directory"))

\* C13: no retry. A call of a single accessor obtains the Port lock at
\* most once, calls set_slave as often as it got the lock and issues at most
\* one request; when it returns (words, Io error or Timeout) it has done each
\* exactly once. read_all does the same per sub-read: it returns a
\* BatteryState after exactly 14 requests, and the error of its k-th
\* sub-read after exactly k.
C13_NoRetry ==
  /\ \A t \in Tasks :
       /\ nreq[t] <= nset[t] /\ nset[t] = nlock[t]
       /\ op[t] \in Quantities => nlock[t] <= 1
       /\ op[t] = "read_all" => nlock[t] <= Len(acc[t]) + 1
  /\ (IsReadReturn /\ ret.op # "read_all") =>
       ret.nlock = 1 /\ ret.nset = 1 /\ ret.nreq = 1
  /\ IsReadAllReturn =>
       /\ ret.nlock = ret.nacc + 1 /\ ret.nset = ret.nacc + 1
       /\ ret.nreq = ret.nacc + 1
       /\ (ret.done /\ ret.result.tag = "Ok") => ret.nreq = 14
       /\ (ret.done /\ ret.result.tag = "Err") =>
            ret.nreq = ret.nacc + 1 /\ ret.nreq <= 14

\* C13 witness: a read_all returns Timeout from its third sub-read after
\* three requests, or an accessor returns Timeout after a single request.
C13_Witness ==
  /\ IsReadReturn /\ ret.done /\ ret.result = Err(Timeout)
  /\ \/ ret.op = "read_all" /\ ret.nacc = 2 /\ ret.nreq = 3
     \/ ret.op = "voltage" /\ ret.nreq = 1 /\ ret.nlock = 1

\* the register table of the claim: quantity -> << address, word count >>
C14_Table ==
  [ current |-> << 5042, 1 >>, voltage |-> << 5043, 1 >>,
    remaining_charge |-> << 5044, 2 >>, capacity |-> << 5046, 2 >>,
    cycle_number |-> << 5048, 1 >>,
    cell_voltage_1 |-> << 5001, 1 >>, cell_voltage_2 |-> << 5002, 1 >>,
    cell_voltage_3 |-> << 5003, 1 >>, cell_voltage_4 |-> << 5004, 1 >>,
    cell_temp_1 |-> << 5018, 1 >>, cell_temp_2 |-> << 5019, 1 >>,
    cell_temp_3 |-> << 5020, 1 >>, cell_temp_4 |-> << 5021, 1 >>,
    heater_level |-> << 5103, 1 >> ]
\* the words slave s holds in the table's registers of quantity q
C14_OwnWords(s, q) ==
  [i \in 1..C14_Table[q][2] |-> RegWord(dev[s], s, C14_Table[q][1] + i - 1)]

\* the accessors' register ranges are the table's and pairwise disjoint
C14_Disjoint ==
  /\ Quantities = DOMAIN C14_Table
  /\ \A q \in Quantities :
       << Request(q).addr, Request(q).size >> = C14_Table[q]
  /\ \A q1, q2 \in Quantities :
       q1 # q2 =>
         \/ Request(q1).addr + Request(q1).size <= Request(q2).addr
         \/ Request(q2).addr + Request(q2).size <= Request(q1).addr

\* C14: the request of every accessor carries the address and word count of
\* its table row; the register ranges of two quantities never overlap; an
\* accessor's value, and every field of a BatteryState, is decoded from the
\* words the Battery's slave holds in that quantity's own registers.
C14_RequestsFollowTable ==
  /\ C14_Disjoint
  /\ \A r \in inflight :
       << r.addr, r.size >> = C14_Table[CurQ(r.by)]
  /\ (IsReadReturn /\ ret.rr.tag = "Ok") =>
       /\ ret.rr.val = C14_OwnWords(addr[ret.by], ret.q)
       /\ ret.op # "read_all" =>
            ret.result = Ok(Accessor(ret.op, C14_OwnWords(addr[ret.by], ret.op)))
  /\ (IsReadAllReturn /\ ret.done /\ ret.result.tag = "Ok") =>
       \A q \in Quantities :
         ret.result.val[q] = Accessor(q, C14_OwnWords(addr[ret.by], q))

\* C14 witness: a read_all returned a BatteryState whose capacity comes from
\* registers 0x13b6..0x13b7 and differs from what the neighbouring
\* remaining_charge registers would have given.
C14_Witness ==
  /\ IsReadAllReturn /\ ret.done /\ ret.result.tag = "Ok"
  /\ ret.result.val["capacity"] =
       capacity(<< RegWord(dev[addr[ret.by]], addr[ret.by], 5046),
                  RegWord(dev[addr[ret.by]], addr[ret.by], 5047) >>)
  /\ ret.result.val["capacity"].raw # ret.result.val["remaining_charge"].raw

\* the order of the register table, and the order of the amended claim
C15_TableSeq ==
  << "current", "voltage", "remaining_charge", "capacity", "cycle_number",
     "cell_voltage_1", "cell_voltage_2", "cell_voltage_3", "cell_voltage_4",
     "cell_temp_1", "cell_temp_2", "cell_temp_3", "cell_temp_4",
     "heater_level" >>
C15_AmendedSeq ==
  << "current", "voltage", "remaining_charge", "capacity",
     "cell_voltage_1", "cell_voltage_2", "cell_voltage_3", "cell_voltage_4",
     "cycle_number",
     "cell_temp_1", "cell_temp_2", "cell_temp_3", "cell_temp_4",
     "heater_level" >>
\* read_all of task t goes through the quantities in the order seq: its
\* n-th request reads the registers of seq[n], it is issued when exactly
\* the n-1 quantities before it have been read, and the values collected
\* are those of that prefix
C15_InOrder(seq, t) ==
  op[t] = "read_all" =>
    /\ Len(acc[t]) < Len(seq)
    /\ pc[t] \in {"lock_wait", "sleeping"} => nreq[t] = Len(acc[t])
    /\ pc[t] = "awaiting" => nreq[t] = Len(acc[t]) + 1
    /\ \A r \in inflight :
         r.by = t => /\ r.addr = C14_Table[seq[nreq[t]]][1]
                     /\ r.size = C14_Table[seq[nreq[t]]][2]
    /\ \A i \in 1..Len(acc[t]) :
         acc[t][i] = Accessor(seq[i], C14_OwnWords(addr[t], seq[i]))
\* a failing read_all fails at the quantity of seq that follows the ones read
C15_FailsAfterPrefix(seq) ==
  (IsReadAllReturn /\ ret.rr.tag = "Err") =>
    ret.done /\ ret.q = seq[ret.nacc + 1] /\ ret.nreq = ret.nacc + 1

\* C15 as claimed: read_all reads in the order of the register table,
\* cycle_number fifth, right after capacity; on a failure the quantities
\* already read are the table's rows before the failing one.
C15_TableOrder ==
  /\ \A t \in Tasks : C15_InOrder(C15_TableSeq, t)
  /\ C15_FailsAfterPrefix(C15_TableSeq)

\* C15 amended: read_all reads current, voltage, remaining_charge, capacity,
\* cell_voltage_1..4, cycle_number, cell_temp_1..4, heater_level, each
\* sub-read issued only when the ones before it have returned words; on a
\* failure the quantities already read are the ones before the failing
\* quantity in this order.
C15_CodeOrder ==
  /\ \A t \in Tasks : C15_InOrder(C15_AmendedSeq, t)
  /\ C15_FailsAfterPrefix(C15_AmendedSeq)

\* C15 witness: the ninth sub-read of a read_all, cycle_number, fails after
\* the four cell voltages have been read.
C15_Witness ==
  /\ IsReadAllReturn /\ ret.done /\ ret.rr.tag = "Err"
  /\ ret.nacc = 8 /\ ret.nreq = 9 /\ ret.q = "cycle_number"
  /\ ret.engine.tag = "Elapsed"

\* the value of quantity q decoded from slave s's registers at image img
C16_ValueAt(img, s, q) ==
  Accessor(q, [j \in 1..Request(q).size |->
                 RegWord(img, s, Request(q).addr + j - 1)])
\* all fields of b come from the one image img of slave s
C16_Uniform(b, img, s) == \A q \in Quantities : b[q] = C16_ValueAt(img, s, q)

\* C16: read_all is not atomic across fields. After every sub-read but the
\* last the Port lock is free and the call queues for it again behind the
\* handles already waiting; every value collected, and every field of the
\* BatteryState returned, is the value the device held at the moment of that
\* field's own sub-read, not at one moment common to all fields.
C16_NoCrossFieldAtomicity ==
  /\ (IsReadAllReturn /\ ~ret.done) =>
       /\ holder = 0 /\ pc[ret.by] = "lock_wait"
       /\ waiters # << >> /\ waiters[Len(waiters)] = ret.by
  /\ \A t \in Tasks :
       (op[t] = "read_all" /\ Len(acc[t]) > 0) =>
         /\ Len(seen[t]) = Len(acc[t])
         /\ \A i \in 1..Len(acc[t]) :
              acc[t][i] = C16_ValueAt(seen[t][i], addr[t], ReadAllOrder[i])
  /\ (IsReadAllReturn /\ ret.done /\ ret.result.tag = "Ok") =>
       /\ Len(seen[ret.by]) = NumQuantities
       /\ \A i \in 1..NumQuantities :
            ret.result.val[ReadAllOrder[i]] =
              C16_ValueAt(seen[ret.by][i], addr[ret.by], ReadAllOrder[i])

\* C16 witness: handle A gets a BatteryState from one read_all call during
\* which another handle's transaction was answered and A's battery changed
\* its registers: the first field is from before the change, the last from
\* after it, and the whole equals neither image.
C16_Witness ==
  /\ IsReadAllReturn /\ ret.done /\ ret.result.tag = "Ok"
  /\ ret.by \in between
  /\ seen[ret.by][1] = 1 /\ seen[ret.by][NumQuantities] = 2
  /\ ret.result.val["current"] = C16_ValueAt(1, addr[ret.by], "current")
  /\ ret.result.val["heater_level"] =
       C16_ValueAt(2, addr[ret.by], "heater_level")
  /\ ~C16_Uniform(ret.result.val, 1, addr[ret.by])
  /\ ~C16_Uniform(ret.result.val, 2, addr[ret.by])

\* the task whose read_register got the lock and set the slave id in this step
C18_Entered(t) == pc[t] = "lock_wait" /\ pc'[t] = "sleeping"
\* this step is a complete run of test() by task t
C18_Tested(t) == ret'.tag = "Return" /\ ret'.op = "test" /\ ret'.by = t

\* C18: frame condition. No step changes the addr of any Battery or a
\* device register, and a task between calls holds nothing of its last call.
\* The active slave id changes only when a read gets the lock (to that
\* Battery's addr) or test() runs (to 240); the requests in flight change
\* only by the request of a read being issued or ended; test() leaves the
\* requests in flight and the lock as they were and sends no request.
C18_Frame ==
  [][ /\ addr' = addr
      /\ dev' = dev
      /\ \A t \in Tasks :
           pc'[t] = "idle" =>
             op'[t] = "-" /\ acc'[t] = << >> /\ nreq'[t] = 0
      /\ \A t \in Tasks : C18_Entered(t) => slave' = addr[t]
      /\ \A t \in Tasks :
           C18_Tested(t) =>
             /\ slave' = 240 /\ ret'.nreq = 0
             /\ inflight' = inflight /\ holder' = holder
             /\ lastOp' = [kind |-> "set_slave", by |-> t]
      /\ (\A t \in Tasks : ~C18_Entered(t) /\ ~C18_Tested(t)) =>
           slave' = slave
      /\ \A r \in inflight' \ inflight :
           pc[r.by] = "sleeping" /\ pc'[r.by] = "awaiting"
      /\ \A r \in inflight \ inflight' :
           pc[r.by] = "awaiting" /\ pc'[r.by] # "awaiting"
    ]_vars

\* C18 witness: test() has just run while another handle is in the middle
\* of a read_all: the active slave id is 240, no request is in flight, and
\* the other handle's addr and collected values are in place.
C18_Witness ==
  /\ ret.tag = "Return" /\ ret.op = "test" /\ ret.nreq = 0
  /\ slave = 240 /\ inflight = {} /\ holder = 0
  /\ \E u \in Tasks \ {ret.by} :
       /\ op[u] = "read_all" /\ Len(acc[u]) > 0 /\ pc[u] = "lock_wait"
       /\ addr[u] = BatteryAddr(u)

\* C19: voltage, cell_voltage_1..4, heater_level and cycle_number decode the
\* word w to the integer w itself, in 0..65535, neither sign-extended nor
\* byte-swapped; cycle_number returns it unscaled, the voltages scale it by
\* 0.1 and heater_level by 0.3922.
C19_UnsignedWordKept ==
  (dout.tag = "Ok" /\
   dq \in {"voltage", "cell_voltage_1", "cell_voltage_2", "cell_voltage_3",
           "cell_voltage_4", "heater_level", "cycle_number"}) =>
    /\ dout.val.raw = dwords[1]
    /\ dout.val.raw >= 0 /\ dout.val.raw <= 65535
    /\ dq = "cycle_number" => dout.val.num = 1 /\ dout.val.den = 1
    /\ dq = "heater_level" => dout.val.num = 3922 /\ dout.val.den = 10000
    /\ dq \notin {"cycle_number", "heater_level"} =>
         dout.val.num = 1 /\ dout.val.den = 10

\* C19 witness: cycle_number decodes 0xFFFF to 65535, or voltage 0x8000 to
\* raw 32768.
C19_Witness ==
  /\ dout.tag = "Ok"
  /\ \/ dq = "cycle_number" /\ dwords = << 65535 >> /\ dout.val.raw = 65535
     \/ dq = "voltage" /\ dwords = << 32768 >> /\ dout.val.raw = 32768

====
